---- MODULE Spec2Model ----
(***************************************************************************)
(* A model of channels_graphql_ws/client.py: the GraphQL-over-WebSocket    *)
(* client `GraphqlWsClient`.  The client keeps no state of its own besides *)
(* the transport; every operation is a coroutine whose suspension points   *)
(* are the awaits on the transport (connect, send, receive, shutdown).     *)
(* The code between two awaits runs atomically, so each action below is    *)
(* one such stretch of code.                                               *)
(***************************************************************************)
EXTENDS Integers, Sequences, FiniteSets, TLC

(***************************************************************************)
(* Bounds of the model.                                                    *)
(***************************************************************************)
\* Messages the server puts on the connection in one behaviour.
MaxMsgs == 3
\* The most time (in clock ticks) one iteration of the bounded wait takes:
\* `time.monotonic() - start` is any number in 0..MaxElapsed.
MaxElapsed == 2

(***************************************************************************)
(* Python values.  Every value carries its type, so None, a str and a dict *)
(* are never confused and `is None`, `in` and `==` are what Python does.   *)
(***************************************************************************)
PyNone == [py |-> "None"]
PyStr(s) == [py |-> "str", s |-> s]
PyInt(n) == [py |-> "int", n |-> n]
PyDict(d) == [py |-> "dict", d |-> d]
\* A query text: the indentation of each of its lines.
PyText(lines) == [py |-> "text", lines |-> lines]
EmptyDict == PyDict([k \in {} |-> PyNone])

\* dict.get(key, None) on a raw mapping
Get(d, k) == IF k \in DOMAIN d THEN d[k] ELSE PyNone

\* `key in value` for the values the model holds: a key of a dict, a
\* substring of a str (the only str modelled is the empty one).
PyIn(k, v) ==
    CASE v.py = "dict" -> k \in DOMAIN v.d
      [] v.py = "str" -> v.s = k
      [] OTHER -> FALSE

\* Python truthiness, for `variables or {}`
Truthy(v) ==
    CASE v.py = "None" -> FALSE
      [] v.py = "dict" -> DOMAIN v.d # {}
      [] v.py = "str" -> v.s # ""
      [] v.py = "int" -> v.n # 0
      [] OTHER -> TRUE

(***************************************************************************)
(* The values the environment draws from.                                  *)
(***************************************************************************)
X == PyStr("X")
Y == PyStr("Y")
\* Identifiers: the ones uuid4 may produce and the server may tag with.
Ids == {X, Y}
\* The default for `id`: a sentinel distinct from every value, None included.
AUTO == [py |-> "AUTO"]

Data(n) == PyDict([k \in {"data"} |-> PyInt(n)])
DataAndErrors == PyDict([k \in {"data", "errors"} |-> PyNone])

\* A keep-alive; this one carries an id and a payload as well.
KAX == [id |-> X, type |-> PyStr("ka"), payload |-> Data(9)]
\* No id, no payload.
ACK == [type |-> PyStr("connection_ack")]
DataX == [id |-> X, type |-> PyStr("data"), payload |-> Data(1)]
\* No type.
DataY == [id |-> Y, payload |-> Data(2)]
ErrX == [id |-> X, type |-> PyStr("error"), payload |-> DataAndErrors]
\* The payload is null.
CompleteX == [id |-> X, type |-> PyStr("complete"), payload |-> PyNone]

\* The messages the server may send.
Msgs == {KAX, ACK, DataX, DataY, ErrX, CompleteX}

Callers == {1, 2}

\* The `response_checker` arguments of gql_wait_response.
Checkers == {"has_data"}
\* The `timeout` arguments of gql_wait_response (None: use the default).
Timeouts == {PyNone, PyInt(-1), PyInt(0), PyInt(1)}
\* The (query, variables) arguments: a query text is the indentation of
\* each of its lines.
StartArgs == {<<PyText(<<0>>), PyDict([k \in {"a"} |-> PyInt(1)])>>,
              <<PyText(<<4, 6>>), PyNone>>}

\* GraphqlWsClient.TIMEOUT, in clock ticks.
TIMEOUT == 2

(***************************************************************************)
(* The pure parts of the client.                                           *)
(***************************************************************************)
\* How a coroutine ends: `return value` or `raise kind(value)`.
Return(v) == [kind |-> "return", value |-> v]
Raise(k, v) == [kind |-> k, value |-> v]
Running == [kind |-> "running", value |-> PyNone]
NotCalled == [kind |-> "none", value |-> PyNone]

\* A check that takes only a message without id for a keep-alive.
IsKeepAliveResponse_NoId(response) ==
    Get(response, "type") = PyStr("ka") /\ "id" \notin DOMAIN response

IsKeepAliveResponse(response) == Get(response, "type") = PyStr("ka")

\* GraphqlWsResponseError(message, response): asserts that `response` has
\* `errors` and keeps the response.
GraphqlWsResponseError(response) ==
    IF PyIn("errors", response)
    THEN Raise("GraphqlWsResponseError", response)
    ELSE Raise("AssertionError", response)

\* A check of the value of `errors` instead of its presence.
ResponsePayload_Truthy(response) ==
    LET payload == Get(response, "payload")
    IN  IF payload # PyNone /\ PyIn("errors", payload) /\ Truthy(payload.d["errors"])
        THEN GraphqlWsResponseError(payload)
        ELSE Return(payload)

ResponsePayload(response) ==
    LET payload == Get(response, "payload")
    IN  IF payload # PyNone /\ PyIn("errors", payload)
        THEN GraphqlWsResponseError(payload)
        ELSE Return(payload)

\* A _next_response that returns the first response that is no keep-alive,
\* whatever its id.
NextResponseStep_AnyId(response, wait_id) ==
    IF IsKeepAliveResponse(response) THEN "continue"
    ELSE IF wait_id = PyNone THEN "return"
    ELSE IF "id" \notin DOMAIN response THEN "KeyError"
    ELSE "return"

\* One iteration of the loop of _next_response on the message received:
\* "continue" (loop again), "return" (return the response) or "KeyError"
\* (response["id"] on a response that has no id).
NextResponseStep(response, wait_id) ==
    IF IsKeepAliveResponse(response) THEN "continue"
    ELSE IF wait_id = PyNone THEN "return"
    ELSE IF "id" \notin DOMAIN response THEN "KeyError"
    ELSE IF response["id"] = wait_id THEN "return"
    ELSE "continue"

\* A client that kept the responses it skips for a later call.
AfterDiscard_Requeue(rest, entry) == Append(rest, entry)

\* What _next_response keeps of a response it does not return: nothing.
\* `rest` is the transport's queue behind the response `entry`.
AfterDiscard(rest, entry) == rest

\* A gql_send that puts every argument into the message, None or not.
SendMessage_AllFields(id, type, payload) ==
    [k \in {"id", "type", "payload"} |->
        CASE k = "id" -> id [] k = "type" -> type [] OTHER -> payload]

\* The message gql_send builds from its arguments, `id` already minted.
SendMessage(id, type, payload) ==
    LET arg == [k \in {"id", "type", "payload"} |->
                  CASE k = "id" -> id [] k = "type" -> type [] OTHER -> payload]
    IN  [k \in {f \in {"id", "type", "payload"} : arg[f] # PyNone} |-> arg[k]]

\* `id` of gql_send after the default is replaced by a minted identifier
SendId(id, minted) == IF id = AUTO THEN minted ELSE id

\* textwrap.dedent on the indentations of the lines of a text
MinIndent(lines) == CHOOSE n \in {lines[i] : i \in DOMAIN lines} :
                        \A i \in DOMAIN lines : n <= lines[i]
Dedent(text) ==
    IF text.lines = <<>> THEN text
    ELSE PyText([i \in DOMAIN text.lines |-> text.lines[i] - MinIndent(text.lines)])

\* The payload of the "start" message of gql_start
StartPayload(query, variables) ==
    PyDict([query |-> Dedent(query),
            variables |-> IF Truthy(variables) THEN variables ELSE EmptyDict])

\* The assertion of gql_connect_and_init on the response to connection_init
HandshakeCheck(resp) ==
    IF "type" \notin DOMAIN resp THEN Raise("KeyError", PyStr("type"))
    ELSE IF resp["type"] = PyStr("connection_ack") THEN Return(PyNone)
    ELSE Raise("AssertionError", PyNone)

\* `timeout = timeout or self.TIMEOUT`: a timeout of 0 taken for none.
EffectiveTimeout_Or(timeout) == IF Truthy(timeout) THEN timeout.n ELSE TIMEOUT

\* `if timeout is None: timeout = self.TIMEOUT`
EffectiveTimeout(timeout) == IF timeout = PyNone THEN TIMEOUT ELSE timeout.n

\* A loop that still runs with a budget of zero.
BudgetLeft_Zero(timeout) == timeout >= 0

\* `while timeout > 0`
BudgetLeft(timeout) == timeout > 0

\* `timeout -= time.monotonic() - start`
Decrement(timeout, elapsed) == timeout - elapsed

\* A wait that returns whatever response it receives.
WaitDecision_Any(accepted) == "return"

\* `if response_checker(response): return response`
WaitDecision(accepted) == IF accepted THEN "return" ELSE "next"

\* The response checkers: total predicates on a payload.
Check(checker, payload) ==
    CASE checker = "has_data" -> PyIn("data", payload)
      [] OTHER -> FALSE

(***************************************************************************)
(* The state.                                                              *)
(***************************************************************************)
VARIABLES
    tasks,      \* the callers (asyncio tasks) that use the client
    conn,       \* the transport: "new", "open" (connected) or "closed"
    inbound,    \* the responses the transport holds for receive(), in order
    nserver,    \* how many messages the server has sent
    pc,         \* where each caller is: "idle", "handshake", "receive"
    frame,      \* the locals of each caller's current (or last) operation
    outcome,    \* how each caller's current (or last) operation ended
    log,        \* history: what the operation received, and what became of it
    sent,       \* history: what the operation handed to transport.send
    delivered,  \* history: the last message transport.receive has handed out
    skipped     \* history: the last message _next_response has skipped

vars == <<tasks, conn, inbound, nserver, pc, frame, outcome,
          log, sent, delivered, skipped>>

NoArgs == [none |-> TRUE]

NoFrame ==
    [op |-> "none", args |-> NoArgs,
     wait_id |-> PyNone,    \* the wait_id of the running gql_receive
     stage |-> 0,           \* which gql_receive of the operation is running
     resp |-> PyNone,       \* `resp` of gql_execute
     timeout |-> 0,         \* `timeout` of gql_wait_response
     budget |-> 0,          \* history: the timeout the wait started with
     spent |-> 0,           \* history: time elapsed in the iterations so far
     last |-> "none"]       \* history: how the last gql_receive of a wait ended

NewFrame(op, args) == [NoFrame EXCEPT !.op = op, !.args = args]

TypeOK ==
    /\ tasks \subseteq Callers
    /\ conn \in {"new", "open", "closed"}
    /\ nserver \in 0..MaxMsgs
    /\ Len(inbound) <= MaxMsgs
    /\ \A i \in DOMAIN inbound : inbound[i].m \in Msgs /\ inbound[i].n \in 1..nserver
    /\ pc \in [Callers -> {"idle", "handshake", "receive"}]
    /\ delivered \in 0..nserver
    /\ skipped \in 0..delivered

InitWith(ts) ==
    /\ tasks = ts
    /\ conn = "new"
    /\ inbound = <<>>
    /\ nserver = 0
    /\ pc = [c \in Callers |-> "idle"]
    /\ frame = [c \in Callers |-> NoFrame]
    /\ outcome = [c \in Callers |-> NotCalled]
    /\ log = [c \in Callers |-> <<>>]
    /\ sent = [c \in Callers |-> <<>>]
    /\ delivered = 0
    /\ skipped = 0

\* One caller: the operations of the client run one after the other.
Init == InitWith({1})

(***************************************************************************)
(* The environment: the server.                                            *)
(***************************************************************************)
\* The server sends a message; the transport queues it for receive().
ServerSend(m) ==
    /\ conn = "open"
    /\ nserver < MaxMsgs
    /\ nserver' = nserver + 1
    /\ inbound' = Append(inbound, [n |-> nserver + 1, m |-> m])
    /\ UNCHANGED <<tasks, conn, pc, frame, outcome, log, sent, delivered, skipped>>

InWait(c) == pc[c] = "receive" /\ frame[c].op = "wait_response"

(***************************************************************************)
(* The operations of the client, up to their first await on                *)
(* transport.receive.                                                      *)
(***************************************************************************)
\* A caller issues one operation at a time.  The callers follow the
\* protocol: gql_connect_and_init first, the other operations on the open
\* connection, nothing after gql_finalize.  An operation that sends does so
\* in the step that starts it: transport.send does not wait for the server.
CanCall(c) == c \in tasks /\ pc[c] = "idle"

\* The caller starts an operation: fresh locals, fresh history.
Begin(c, f, newpc, out, msgs) ==
    /\ frame' = [frame EXCEPT ![c] = f]
    /\ pc' = [pc EXCEPT ![c] = newpc]
    /\ outcome' = [outcome EXCEPT ![c] = out]
    /\ sent' = [sent EXCEPT ![c] = msgs]
    /\ log' = [log EXCEPT ![c] = <<>>]

\* gql_connect_and_init whose transport.connect fails: the failure propagates.
ConnectFails(c, connect_only) ==
    /\ CanCall(c) /\ conn = "new"
    /\ Begin(c, NewFrame("connect_and_init", [connect_only |-> connect_only]),
             "idle", Raise("ConnectionError", PyNone), <<>>)
    /\ UNCHANGED <<tasks, conn, inbound, nserver, delivered, skipped>>

\* gql_connect_and_init: connect, then (unless connect_only) send
\* connection_init and await the response.
ConnectAndInit(c, connect_only) ==
    /\ CanCall(c) /\ conn = "new"
    /\ conn' = "open"
    /\ IF connect_only
       THEN Begin(c, NewFrame("connect_and_init", [connect_only |-> TRUE]),
                  "idle", Return(PyNone), <<>>)
       ELSE Begin(c, NewFrame("connect_and_init", [connect_only |-> FALSE]),
                  "handshake", Running,
                  <<[type |-> PyStr("connection_init"), payload |-> PyStr("")]>>)
    /\ UNCHANGED <<tasks, inbound, nserver, delivered, skipped>>

\* gql_send(id=, type=, payload=)
GqlSend(c, id, type, payload, minted) ==
    /\ CanCall(c) /\ conn = "open"
    /\ Begin(c, NewFrame("send", [id |-> id, type |-> type, payload |-> payload]),
             "idle", Return(SendId(id, minted)),
             <<SendMessage(SendId(id, minted), type, payload)>>)
    /\ UNCHANGED <<tasks, conn, inbound, nserver, delivered, skipped>>

\* The message gql_start sends: gql_send(type="start", payload=...)
StartMessage(query, variables, minted) ==
    SendMessage(SendId(AUTO, minted), PyStr("start"), StartPayload(query, variables))

\* gql_start(query, variables=)
GqlStart(c, query, variables, minted) ==
    /\ CanCall(c) /\ conn = "open"
    /\ Begin(c, NewFrame("start", [query |-> query, variables |-> variables]),
             "idle", Return(SendId(AUTO, minted)),
             <<StartMessage(query, variables, minted)>>)
    /\ UNCHANGED <<tasks, conn, inbound, nserver, delivered, skipped>>

\* gql_receive(wait_id=)
GqlReceive(c, wait_id) ==
    /\ CanCall(c) /\ conn = "open"
    /\ Begin(c, [NewFrame("receive", [wait_id |-> wait_id])
                    EXCEPT !.wait_id = wait_id, !.stage = 1],
             "receive", Running, <<>>)
    /\ UNCHANGED <<tasks, conn, inbound, nserver, delivered, skipped>>

\* gql_execute(query, variables): gql_start, then the first gql_receive
GqlExecute(c, query, variables, minted) ==
    /\ CanCall(c) /\ conn = "open"
    /\ Begin(c, [NewFrame("execute", [query |-> query, variables |-> variables])
                    EXCEPT !.wait_id = SendId(AUTO, minted), !.stage = 1],
             "receive", Running, <<StartMessage(query, variables, minted)>>)
    /\ UNCHANGED <<tasks, conn, inbound, nserver, delivered, skipped>>

\* gql_subscribe(query, variables=, wait_confirmation=)
GqlSubscribe(c, query, variables, wait_confirmation, minted) ==
    /\ CanCall(c) /\ conn = "open"
    /\ LET f == [NewFrame("subscribe", [query |-> query, variables |-> variables,
                                        wait_confirmation |-> wait_confirmation])
                    EXCEPT !.wait_id = SendId(AUTO, minted),
                           !.stage = IF wait_confirmation THEN 1 ELSE 0]
       IN  IF wait_confirmation
           THEN Begin(c, f, "receive", Running,
                      <<StartMessage(query, variables, minted)>>)
           ELSE Begin(c, f, "idle", Return(SendId(AUTO, minted)),
                      <<StartMessage(query, variables, minted)>>)
    /\ UNCHANGED <<tasks, conn, inbound, nserver, delivered, skipped>>

\* gql_finalize: the transport shuts down.
GqlFinalize(c) ==
    /\ CanCall(c) /\ conn = "open"
    /\ \A d \in Callers : pc[d] = "idle"
    /\ conn' = "closed"
    /\ Begin(c, NewFrame("finalize", NoArgs), "idle", Return(PyNone), <<>>)
    /\ UNCHANGED <<tasks, inbound, nserver, delivered, skipped>>

\* gql_wait_response(response_checker, timeout): the default timeout, the
\* first loop check and, when it passes, the first gql_receive.
GqlWaitResponse(c, response_checker, timeout) ==
    /\ CanCall(c) /\ conn = "open"
    /\ LET t == EffectiveTimeout(timeout)
           f == [NewFrame("wait_response",
                          [response_checker |-> response_checker, timeout |-> timeout])
                    EXCEPT !.timeout = t, !.budget = t, !.stage = 1]
       IN  IF BudgetLeft(t)
           THEN Begin(c, f, "receive", Running, <<>>)
           ELSE Begin(c, [f EXCEPT !.stage = 0], "idle",
                      Raise("TimeoutError", PyNone), <<>>)
    /\ UNCHANGED <<tasks, conn, inbound, nserver, delivered, skipped>>

(***************************************************************************)
(* transport.receive() completes.  The code that runs from there to the    *)
(* next await, or to the end of the operation, is part of the same step.   *)
(***************************************************************************)
\* The operation of caller c consumes the head of the queue; `fate` is what
\* becomes of it, `checked` whether the response checker saw its payload.
Entry(e, fate, checked) ==
    [n |-> e.n, m |-> e.m, fate |-> fate, checked |-> checked,
     again |-> e.n <= delivered]

\* transport.receive() hands out the head of the queue.
Delivered ==
    delivered' = IF Head(inbound).n > delivered THEN Head(inbound).n ELSE delivered

\* The history of an operation keeps the last MaxMsgs messages it received.
Recent(entries) == IF Len(entries) < MaxMsgs THEN entries ELSE Tail(entries)

Logged(c, fate, checked) ==
    /\ log' = [log EXCEPT ![c] = Append(Recent(@), Entry(Head(inbound), fate, checked))]
    /\ Delivered

\* The operation of caller c ends with `out`.
Ends(c, out) ==
    /\ pc' = [pc EXCEPT ![c] = "idle"]
    /\ outcome' = [outcome EXCEPT ![c] = out]

Receiving(c, op) ==
    /\ pc[c] = "receive"
    /\ frame[c].op = op
    /\ inbound # <<>>

\* The end of an iteration of the loop of gql_wait_response that did not
\* return: the budget is decremented and the loop condition checked again.
\* `elapsed` is time.monotonic() - start.
NextIteration(c, how, elapsed) ==
    LET t == Decrement(frame[c].timeout, elapsed)
        f == [frame[c] EXCEPT !.timeout = t, !.spent = @ + elapsed, !.last = how]
    IN  /\ IF BudgetLeft(t)
           THEN /\ frame' = [frame EXCEPT ![c] = f]
                /\ UNCHANGED <<pc, outcome>>
           ELSE /\ frame' = [frame EXCEPT ![c] = f]
                /\ Ends(c, Raise("TimeoutError", PyNone))

\* gql_connect_and_init receives the response to connection_init.
HandshakeReceive(c) ==
    /\ pc[c] = "handshake"
    /\ inbound # <<>>
    /\ inbound' = Tail(inbound)
    /\ Logged(c, "handshake", FALSE)
    /\ Ends(c, HandshakeCheck(Head(inbound).m))
    /\ UNCHANGED <<tasks, conn, nserver, frame, sent, skipped>>

\* _next_response receives a keep-alive or a response with another id: it
\* loops again.
ReceiveDiscard(c) ==
    /\ pc[c] = "receive"
    /\ inbound # <<>>
    /\ NextResponseStep(Head(inbound).m, frame[c].wait_id) = "continue"
    /\ inbound' = AfterDiscard(Tail(inbound), Head(inbound))
    /\ Logged(c, IF IsKeepAliveResponse(Head(inbound).m) THEN "keepalive" ELSE "skipped",
              FALSE)
    /\ skipped' = IF IsKeepAliveResponse(Head(inbound).m)
                  THEN skipped
                  ELSE Head(inbound).n
    /\ UNCHANGED <<tasks, conn, nserver, pc, frame, outcome, sent>>

\* _next_response reads response["id"] of a response that has no id: the
\* KeyError propagates out of the operation.
ReceiveKeyError(c) ==
    /\ pc[c] = "receive"
    /\ inbound # <<>>
    /\ NextResponseStep(Head(inbound).m, frame[c].wait_id) = "KeyError"
    /\ inbound' = Tail(inbound)
    /\ Logged(c, "keyerror", FALSE)
    /\ Ends(c, Raise("KeyError", PyStr("id")))
    /\ UNCHANGED <<tasks, conn, nserver, frame, sent, skipped>>

Returns(c, op) ==
    /\ Receiving(c, op)
    /\ NextResponseStep(Head(inbound).m, frame[c].wait_id) = "return"
    /\ inbound' = Tail(inbound)

\* A gql_receive that leaves a message with errors in the stream.
ReceiveReturn_Unread(c) ==
    /\ Receiving(c, "receive")
    /\ NextResponseStep(Head(inbound).m, frame[c].wait_id) = "return"
    /\ inbound' = IF ResponsePayload(Head(inbound).m).kind = "return"
                  THEN Tail(inbound)
                  ELSE inbound
    /\ Logged(c, "returned", FALSE)
    /\ Ends(c, ResponsePayload(Head(inbound).m))
    /\ UNCHANGED <<tasks, conn, nserver, frame, sent, skipped>>

\* gql_receive (called by the caller): _next_response returns.
ReceiveReturn(c) ==
    /\ Returns(c, "receive")
    /\ Logged(c, "returned", FALSE)
    /\ Ends(c, ResponsePayload(Head(inbound).m))
    /\ UNCHANGED <<tasks, conn, nserver, frame, sent, skipped>>

\* A gql_execute that returns `resp` without the second gql_receive.
ExecuteData_NoDrain(c) ==
    /\ Returns(c, "execute")
    /\ frame[c].stage = 1
    /\ Logged(c, "returned", FALSE)
    /\ Ends(c, ResponsePayload(Head(inbound).m))
    /\ UNCHANGED <<tasks, conn, nserver, frame, sent, skipped>>

\* A gql_execute that awaits the second response also when the first
\* carries errors.
ExecuteData_ErrorDrains(c) ==
    /\ Returns(c, "execute")
    /\ frame[c].stage = 1
    /\ Logged(c, "returned", FALSE)
    /\ frame' = [frame EXCEPT ![c].resp = ResponsePayload(Head(inbound).m).value,
                              ![c].stage = 2]
    /\ UNCHANGED <<pc, outcome>>
    /\ UNCHANGED <<tasks, conn, nserver, sent, skipped>>

\* gql_execute: `resp = await self.gql_receive(wait_id=id)` completes.
ExecuteData(c) ==
    /\ Returns(c, "execute")
    /\ frame[c].stage = 1
    /\ Logged(c, "returned", FALSE)
    /\ LET r == ResponsePayload(Head(inbound).m)
       IN  IF r.kind = "return"
           THEN /\ frame' = [frame EXCEPT ![c].resp = r.value, ![c].stage = 2]
                /\ UNCHANGED <<pc, outcome>>
           ELSE /\ Ends(c, r)
                /\ UNCHANGED frame
    /\ UNCHANGED <<tasks, conn, nserver, sent, skipped>>

\* gql_execute: the gql_receive that consumes the 'complete' message completes.
ExecuteComplete(c) ==
    /\ Returns(c, "execute")
    /\ frame[c].stage = 2
    /\ Logged(c, "returned", FALSE)
    /\ LET r == ResponsePayload(Head(inbound).m)
       IN  Ends(c, IF r.kind = "return" THEN Return(frame[c].resp) ELSE r)
    /\ UNCHANGED <<tasks, conn, nserver, frame, sent, skipped>>

\* A gql_subscribe that returns what its gql_receive returned.
SubscribeConfirmed_Payload(c) ==
    /\ Returns(c, "subscribe")
    /\ Logged(c, "returned", FALSE)
    /\ Ends(c, ResponsePayload(Head(inbound).m))
    /\ UNCHANGED <<tasks, conn, nserver, frame, sent, skipped>>

\* gql_subscribe: the confirmation is received.
SubscribeConfirmed(c) ==
    /\ Returns(c, "subscribe")
    /\ Logged(c, "returned", FALSE)
    /\ LET r == ResponsePayload(Head(inbound).m)
       IN  Ends(c, IF r.kind = "return" THEN Return(frame[c].wait_id) ELSE r)
    /\ UNCHANGED <<tasks, conn, nserver, frame, sent, skipped>>

\* A gql_wait_response that catches the GraphqlWsResponseError as it catches
\* the TimeoutError.
WaitResponseError_Swallowed(c) ==
    /\ Returns(c, "wait_response")
    /\ ResponsePayload(Head(inbound).m).kind # "return"
    /\ Logged(c, "returned", FALSE)
    /\ NextIteration(c, "error", 0)
    /\ UNCHANGED <<tasks, conn, nserver, sent, skipped>>

\* gql_wait_response: gql_receive raises a GraphqlWsResponseError, which
\* `except asyncio.TimeoutError` does not catch.
WaitResponseError(c) ==
    /\ Returns(c, "wait_response")
    /\ ResponsePayload(Head(inbound).m).kind # "return"
    /\ Logged(c, "returned", FALSE)
    /\ Ends(c, ResponsePayload(Head(inbound).m))
    /\ frame' = [frame EXCEPT ![c].last = "error"]
    /\ UNCHANGED <<tasks, conn, nserver, sent, skipped>>

\* gql_wait_response: gql_receive returns a payload the checker accepts.
WaitResponseMatch(c) ==
    /\ Returns(c, "wait_response")
    /\ ResponsePayload(Head(inbound).m).kind = "return"
    /\ WaitDecision(Check(frame[c].args.response_checker,
                          ResponsePayload(Head(inbound).m).value)) = "return"
    /\ Logged(c, "returned", TRUE)
    /\ Ends(c, ResponsePayload(Head(inbound).m))
    /\ frame' = [frame EXCEPT ![c].last = "match"]
    /\ UNCHANGED <<tasks, conn, nserver, sent, skipped>>

\* gql_wait_response: gql_receive returns a payload the checker rejects.
WaitResponseSkip(c, elapsed) ==
    /\ Returns(c, "wait_response")
    /\ ResponsePayload(Head(inbound).m).kind = "return"
    /\ WaitDecision(Check(frame[c].args.response_checker,
                          ResponsePayload(Head(inbound).m).value)) = "next"
    /\ Logged(c, "returned", TRUE)
    /\ NextIteration(c, "message", elapsed)
    /\ UNCHANGED <<tasks, conn, nserver, sent, skipped>>

(***************************************************************************)
(* transport.receive() fails with asyncio.TimeoutError: nothing arrived    *)
(* within the transport's own timeout.                                     *)
(***************************************************************************)
\* In gql_wait_response the TimeoutError is caught and the loop goes on.
\* The transport's timeout is positive, so time has passed.
WaitReceiveTimeout(c, elapsed) ==
    /\ InWait(c)
    /\ inbound = <<>>
    /\ elapsed >= 1
    /\ NextIteration(c, "timeout", elapsed)
    /\ UNCHANGED <<tasks, conn, inbound, nserver, log, sent, delivered, skipped>>

\* Everywhere else it propagates to the caller.
ReceiveTimeout(c) ==
    /\ pc[c] \in {"handshake", "receive"}
    /\ frame[c].op # "wait_response"
    /\ inbound = <<>>
    /\ Ends(c, Raise("TimeoutError", PyNone))
    /\ UNCHANGED <<tasks, conn, inbound, nserver, frame, log, sent, delivered, skipped>>

(***************************************************************************)
(* The specification.                                                      *)
(***************************************************************************)
Next ==
    \/ \E m \in Msgs : ServerSend(m)
    \/ \E c \in Callers :
        \/ \E b \in BOOLEAN : ConnectFails(c, b)
        \/ \E b \in BOOLEAN : ConnectAndInit(c, b)
        \/ \E id \in {AUTO, PyNone, X}, type \in {PyNone, PyStr("stop")},
              payload \in {PyNone, Data(1)} :
                \E minted \in IF id = AUTO THEN Ids ELSE {X} :
                    GqlSend(c, id, type, payload, minted)
        \/ \E a \in StartArgs, minted \in Ids : GqlStart(c, a[1], a[2], minted)
        \/ \E w \in Ids \cup {PyNone} : GqlReceive(c, w)
        \/ \E a \in StartArgs, minted \in Ids : GqlExecute(c, a[1], a[2], minted)
        \/ \E a \in StartArgs, b \in BOOLEAN, minted \in Ids :
                GqlSubscribe(c, a[1], a[2], b, minted)
        \/ \E k \in Checkers, t \in Timeouts : GqlWaitResponse(c, k, t)
        \/ GqlFinalize(c)
        \/ HandshakeReceive(c)
        \/ ReceiveDiscard(c)
        \/ ReceiveKeyError(c)
        \/ ReceiveReturn(c)
        \/ ExecuteData(c)
        \/ ExecuteComplete(c)
        \/ SubscribeConfirmed(c)
        \/ WaitResponseError(c)
        \/ WaitResponseMatch(c)
        \/ \E elapsed \in 0..MaxElapsed : WaitResponseSkip(c, elapsed)
        \/ \E elapsed \in 0..MaxElapsed : WaitReceiveTimeout(c, elapsed)
        \/ ReceiveTimeout(c)

Spec == Init /\ [][Next]_vars

(***************************************************************************)
(* Two callers on one connection: each calls gql_receive(wait_id=) when it *)
(* likes, so two calls of _next_response can be awaiting the transport at  *)
(* once; a message the transport delivers goes to one of them.             *)
(***************************************************************************)
InitConc == InitWith(Callers)

NextConc ==
    \/ \E m \in Msgs : ServerSend(m)
    \/ \E c \in Callers :
        \/ ConnectAndInit(c, TRUE)
        \/ \E w \in Ids : GqlReceive(c, w)
        \/ ReceiveDiscard(c)
        \/ ReceiveKeyError(c)
        \/ ReceiveReturn(c)
        \/ ReceiveTimeout(c)

SpecConc == InitConc /\ [][NextConc]_vars

(***************************************************************************)
(* The bounded wait on a stream that never ends: the server sends the next *)
(* message as soon as the transport has handed out the last one, or lets   *)
(* the transport's receive time out.  The numbering of the messages stops  *)
(* at MaxMsgs.                                                             *)
(***************************************************************************)
ServerStream(m) ==
    /\ conn = "open"
    /\ inbound = <<>>
    /\ \E c \in Callers : InWait(c)
    /\ LET n == IF nserver < MaxMsgs THEN nserver + 1 ELSE nserver
       IN  /\ nserver' = n
           /\ inbound' = <<[n |-> n, m |-> m]>>
    /\ UNCHANGED <<tasks, conn, pc, frame, outcome, log, sent, delivered, skipped>>

\* The steps of the client that follow a transport.receive of the wait.
WaitStep(c) ==
    \/ ReceiveDiscard(c)
    \/ WaitResponseError(c)
    \/ WaitResponseMatch(c)
    \/ \E elapsed \in 0..MaxElapsed : WaitResponseSkip(c, elapsed)
    \/ \E elapsed \in 0..MaxElapsed : WaitReceiveTimeout(c, elapsed)

\* An iteration of the wait that handles a message while the clock advances.
WaitTimePasses(c) == \E elapsed \in 1..MaxElapsed : WaitResponseSkip(c, elapsed)

NextWait ==
    \/ \E m \in Msgs : ServerStream(m)
    \/ \E c \in Callers :
        \/ ConnectAndInit(c, TRUE)
        \/ \E k \in Checkers, t \in Timeouts : GqlWaitResponse(c, k, t)
        \/ WaitStep(c)

\* The event loop resumes a coroutine whose await has completed, a receive
\* of the transport that gets no message ends with its timeout, and the
\* monotonic clock does not stand still for ever.
SpecWait ==
    /\ Init
    /\ [][NextWait]_vars
    /\ \A c \in Callers : WF_vars(WaitStep(c)) /\ SF_vars(WaitTimePasses(c))

(***************************************************************************)
(* The properties.  They are stated on the history (log, sent) with        *)
(* definitions of their own, not with the operators of the client above.   *)
(***************************************************************************)
\* A keep-alive, as the protocol defines it.
KeepAlive(m) == "type" \in DOMAIN m /\ m.type = PyStr("ka")
\* The id a message is tagged with (None when it has none).
IdOf(m) == IF "id" \in DOMAIN m THEN m.id ELSE PyNone
\* The payload of a message (None when it has none).
PayloadOf(m) == IF "payload" \in DOMAIN m THEN m.payload ELSE PyNone
HasErrors(p) == p.py = "dict" /\ "errors" \in DOMAIN p.d
\* The message answers a wait on w: not a keep-alive and, when w is set,
\* tagged with w.
Matches(m, w) == ~KeepAlive(m) /\ (w = PyNone \/ IdOf(m) = w)

\* The operations that read the stream through _next_response.
UsesNextResponse(c) ==
    frame[c].op \in {"receive", "execute", "subscribe", "wait_response"}
Ended(c) == pc[c] = "idle"
Last(seq) == seq[Len(seq)]

\* C1: _next_response never returns a keep-alive: a keep-alive an operation
\* consumes is discarded, the response checker never sees its payload, and
\* the operation goes on receiving (it can then end only by a timeout of
\* the transport).
C1_KeepAliveNeverReturned ==
    \A c \in Callers : UsesNextResponse(c) =>
        \A i \in DOMAIN log[c] :
            KeepAlive(log[c][i].m) =>
                /\ log[c][i].fate = "keepalive"
                /\ ~log[c][i].checked
                /\ (i = Len(log[c]) =>
                        ~Ended(c) \/ outcome[c].kind = "TimeoutError")

\* C1 witness: a wait on X returned a value after it had consumed a
\* keep-alive that carries the id X and a payload.
C1_Witness ==
    \E c \in Callers :
        /\ frame[c].op \in {"receive", "wait_response"}
        /\ Ended(c) /\ outcome[c].kind = "return"
        /\ \E i \in DOMAIN log[c] : log[c][i].m = KAX

\* C2: gql_receive(wait_id) ends exactly at the first message that answers
\* the wait, with the payload of that message, and consumes nothing behind it.
C2_ReceiveReturnsFirstMatch ==
    \A c \in Callers : frame[c].op = "receive" =>
        LET w == frame[c].args.wait_id
            L == log[c]
        IN  /\ \A i \in DOMAIN L : i < Len(L) => ~Matches(L[i].m, w)
            /\ ~Ended(c) => \A i \in DOMAIN L : ~Matches(L[i].m, w)
            /\ (Ended(c) /\ outcome[c].kind # "TimeoutError") =>
                    /\ L # <<>>
                    /\ Matches(Last(L).m, w)
                    /\ outcome[c].value = PayloadOf(Last(L).m)
                    /\ outcome[c].kind \in {"return", "GraphqlWsResponseError"}

\* C3: while _next_response waits on an id, a message that is no keep-alive
\* and does not carry that id (or carries none) is skipped, and the
\* operation goes on receiving: it never ends on such a message.
C3_MismatchNeverFails ==
    \A c \in Callers : (UsesNextResponse(c) /\ frame[c].wait_id # PyNone) =>
        \A i \in DOMAIN log[c] :
            (~KeepAlive(log[c][i].m) /\ IdOf(log[c][i].m) # frame[c].wait_id) =>
                /\ log[c][i].fate = "skipped"
                /\ (i = Len(log[c]) =>
                        ~Ended(c) \/ outcome[c].kind = "TimeoutError")

\* C4: there is no buffer of inbound messages: no operation is ever handed a
\* message that the transport has handed out before (so a message one call
\* skipped is never returned by a later call), and nothing that was handed
\* out stays in the queue.
C4_NoBuffer ==
    /\ \A c \in Callers : \A i \in DOMAIN log[c] : ~log[c][i].again
    /\ \A j \in DOMAIN inbound : inbound[j].n > delivered
    /\ skipped <= delivered

\* C4 witness: gql_receive(wait_id=Y) returned a message after an earlier
\* operation had skipped one.
C4_Witness ==
    \E c \in Callers :
        /\ frame[c].op = "receive" /\ frame[c].wait_id = Y
        /\ Ended(c) /\ outcome[c].kind = "return"
        /\ skipped >= 1 /\ skipped < log[c][1].n

\* The messages of a history or of the queue.
MsgsOf(entries) == [i \in DOMAIN entries |-> entries[i].m]
\* The stream an operation has before it: what it consumed, then what waits.
Stream(c) == MsgsOf(log[c]) \o MsgsOf(inbound)
\* The positions of `msgs` that hold a message tagged with id (keep-alives
\* aside).
Tagged(msgs, id) == {i \in DOMAIN msgs : ~KeepAlive(msgs[i]) /\ IdOf(msgs[i]) = id}
\* The "start" message of an exchange with the given id.
IsStart(m, id) ==
    /\ DOMAIN m = {"id", "type", "payload"}
    /\ m.id = id /\ m.type = PyStr("start")
    /\ DOMAIN m.payload.d = {"query", "variables"}

\* The server replied to the exchange `id` with a data message at i and a
\* complete message at j, and nothing else tagged with id; up to j the
\* stream holds besides them only keep-alives and messages of other ids.
OneShotReply(msgs, id, i, j) ==
    /\ i < j
    /\ Tagged(msgs, id) = {i, j}
    /\ ~HasErrors(PayloadOf(msgs[i]))
    /\ ~HasErrors(PayloadOf(msgs[j]))
    /\ \A k \in 1..j : KeepAlive(msgs[k]) \/ IdOf(msgs[k]) # PyNone

\* C5: gql_execute sends exactly one "start" message; when the server
\* replies with a data and a complete message tagged with its id, however
\* keep-alives and messages of other ids are interleaved, it consumes the
\* stream up to the complete message, returns the payload of the data
\* message and leaves no message of that id in the stream.
C5_ExecuteOneShot ==
    \A c \in Callers : frame[c].op = "execute" =>
        LET id == frame[c].wait_id
            S == Stream(c)
        IN  /\ Len(sent[c]) = 1 /\ IsStart(sent[c][1], id)
            /\ \A i, j \in DOMAIN S :
                (OneShotReply(S, id, i, j) /\ outcome[c].kind # "TimeoutError") =>
                    /\ Len(log[c]) <= j
                    /\ Ended(c) =>
                        /\ Len(log[c]) = j
                        /\ outcome[c] = Return(PayloadOf(S[i]))
                        /\ Tagged(MsgsOf(inbound), id) = {}

\* C5 witness: gql_execute returned the data payload after a reply of a
\* data and a complete message with a keep-alive or a message of another
\* id before or between them.
C5_Witness ==
    \E c \in Callers :
        /\ frame[c].op = "execute" /\ Ended(c)
        /\ outcome[c] = Return(Data(1))
        /\ \E i, j \in DOMAIN log[c] :
            /\ OneShotReply(Stream(c), frame[c].wait_id, i, j)
            /\ j = Len(log[c]) /\ j >= 3
            /\ \E k \in 1..j : k \notin {i, j}

\* C6: gql_receive raises a GraphqlWsResponseError carrying the payload of
\* the message _next_response returned exactly when that payload has an
\* `errors` field, whatever the type of the message and the value of
\* `errors`; otherwise it returns the payload, None when there is none.
C6_ResponseErrorIffErrors ==
    \A c \in Callers :
        (frame[c].op = "receive" /\ Ended(c) /\ log[c] # <<>>
            /\ Last(log[c]).fate = "returned") =>
            LET p == PayloadOf(Last(log[c]).m)
            IN  /\ outcome[c].kind = "GraphqlWsResponseError" <=> HasErrors(p)
                /\ outcome[c].kind \in {"GraphqlWsResponseError", "return"}
                /\ outcome[c].value = p

\* C6 witness: gql_receive raised on a payload whose `errors` is None.
C6_Witness ==
    \E c \in Callers :
        /\ frame[c].op = "receive" /\ Ended(c)
        /\ outcome[c].kind = "GraphqlWsResponseError"
        /\ outcome[c].value.d["errors"] = PyNone
        /\ Last(log[c]).m.type # PyStr("data")

\* C7: gql_connect_and_init(connect_only=False), once connected, sends
\* exactly one connection_init message and no "start", consumes exactly one
\* message and succeeds exactly when that message is a connection_ack; on
\* any other message it fails the handshake assertion.
C7_HandshakeOneResponse ==
    \A c \in Callers :
        (frame[c].op = "connect_and_init" /\ outcome[c].kind # "ConnectionError"
            /\ ~frame[c].args.connect_only) =>
            /\ Len(sent[c]) = 1
            /\ sent[c][1].type = PyStr("connection_init")
            /\ ~Ended(c) => log[c] = <<>>
            /\ (Ended(c) /\ outcome[c].kind # "TimeoutError") =>
                /\ Len(log[c]) = 1
                /\ outcome[c].kind = "return"
                        <=> ("type" \in DOMAIN log[c][1].m
                                /\ log[c][1].m.type = PyStr("connection_ack"))
                /\ outcome[c].kind \in {"return", "AssertionError"}

\* C8: gql_send hands the transport exactly one message whose fields are
\* the arguments that are not None (an omitted id is a minted identifier, an
\* id given as None is no field), each with the value of its argument, and
\* returns the id of the message (None when it has none).
C8_SendExactFields ==
    \A c \in Callers : frame[c].op = "send" =>
        LET a == frame[c].args
            given == {k \in {"id", "type", "payload"} : a[k] # PyNone}
        IN  /\ Ended(c)
            /\ Len(sent[c]) = 1
            /\ DOMAIN sent[c][1] = given
            /\ \A k \in given :
                IF k = "id" /\ a.id = AUTO
                THEN sent[c][1][k] \in Ids
                ELSE sent[c][1][k] = a[k]
            /\ outcome[c] = Return(IdOf(sent[c][1]))

\* C8 witness: gql_send(id=None, type="stop") sent a message with the type
\* alone and returned None.
C8_Witness ==
    \E c \in Callers :
        /\ frame[c].op = "send"
        /\ frame[c].args.id = PyNone /\ frame[c].args.payload = PyNone
        /\ sent[c] = <<[type |-> PyStr("stop")]>>
        /\ outcome[c] = Return(PyNone)

\* The response checker "has_data", stated on the payload.
Accepts(p) == p.py = "dict" /\ "data" \in DOMAIN p.d

\* What C9 says of every operation gql_wait_response, given the set `seen`
\* of the consumed messages the response checker is invoked on: it is
\* invoked on those and no others, in stream order; the wait returns the
\* payload of the first one it accepts, at once; and no consumed message is
\* left in the stream for a later call.
WaitChecks(seen(_)) ==
    \A c \in Callers : frame[c].op = "wait_response" =>
        LET L == log[c]
        IN  /\ \A i \in DOMAIN L : L[i].checked <=> seen(L[i].m)
            /\ \A i \in DOMAIN L : i < Len(L) => L[i].n < L[i + 1].n
            /\ \A i \in DOMAIN L :
                (L[i].checked /\ Accepts(PayloadOf(L[i].m))) =>
                    /\ i = Len(L)
                    /\ Ended(c)
                    /\ outcome[c] = Return(PayloadOf(L[i].m))
            /\ (Ended(c) /\ outcome[c].kind = "return") =>
                    /\ L # <<>>
                    /\ Last(L).checked
                    /\ Accepts(PayloadOf(Last(L).m))
            /\ \A i \in DOMAIN L : \A j \in DOMAIN inbound : inbound[j].n > L[i].n

\* C9 as stated: the response checker is invoked on the payload of every
\* message gql_wait_response consumes that is no keep-alive.
C9_CheckerSeesEveryMessage == WaitChecks(LAMBDA m : ~KeepAlive(m))

\* C9, amended: the response checker is invoked on the payload of every
\* message gql_wait_response consumes that is no keep-alive and whose
\* payload has no `errors` field, in stream order, and the wait returns the
\* first payload it accepts without consuming anything behind it; a payload
\* it rejects is not left in the stream.  A consumed message whose payload
\* has `errors` is the last one consumed: the wait ends with the
\* GraphqlWsResponseError carrying that payload.
C9_CheckerSeesEveryPayload ==
    /\ WaitChecks(LAMBDA m : ~KeepAlive(m) /\ ~HasErrors(PayloadOf(m)))
    /\ \A c \in Callers : frame[c].op = "wait_response" =>
        \A i \in DOMAIN log[c] :
            (~KeepAlive(log[c][i].m) /\ HasErrors(PayloadOf(log[c][i].m))) =>
                /\ i = Len(log[c])
                /\ Ended(c)
                /\ outcome[c] = Raise("GraphqlWsResponseError", PayloadOf(log[c][i].m))

\* C9 witness: gql_wait_response returned an accepted payload after the
\* checker had rejected an earlier one.
C9_Witness ==
    \E c \in Callers :
        /\ frame[c].op = "wait_response" /\ Ended(c)
        /\ outcome[c].kind = "return"
        /\ \E i \in DOMAIN log[c] :
            /\ i < Len(log[c])
            /\ log[c][i].checked
            /\ ~Accepts(PayloadOf(log[c][i].m))

\* The budget gql_wait_response has left: the timeout it started with less
\* the time elapsed in the iterations so far.
Remaining(c) == frame[c].budget - frame[c].spent

\* C10: in gql_wait_response a TimeoutError of the transport is swallowed
\* and the wait goes on while budget remains; the wait fails with
\* TimeoutError only with no budget left, and it does so at the end of any
\* iteration that leaves none, whether the iteration's receive timed out or
\* returned a payload the checker rejected.
C10_TimeoutOnlyWhenBudgetSpent ==
    \A c \in Callers : frame[c].op = "wait_response" =>
        /\ ~Ended(c) => Remaining(c) > 0
        /\ (Ended(c) /\ outcome[c].kind = "TimeoutError") => Remaining(c) <= 0
        /\ frame[c].last \in {"timeout", "message"} =>
            /\ Remaining(c) > 0 => ~Ended(c)
            /\ Remaining(c) <= 0 => (Ended(c) /\ outcome[c].kind = "TimeoutError")

\* C10 witness: a receive of the wait timed out with budget left, and the
\* wait is receiving again.
C10_Witness ==
    \E c \in Callers :
        /\ frame[c].op = "wait_response" /\ ~Ended(c)
        /\ frame[c].last = "timeout"
        /\ frame[c].spent >= 1 /\ Remaining(c) >= 1

\* The other case of C10: the wait failed with TimeoutError after a receive
\* that returned a rejected payload.
C10_TimeoutAfterMessage ==
    \E c \in Callers :
        /\ frame[c].op = "wait_response" /\ Ended(c)
        /\ outcome[c].kind = "TimeoutError"
        /\ frame[c].last = "message"

\* C11: every gql_wait_response ends, on every stream on which each receive
\* of the transport delivers a message or times out.
C11_WaitTerminates ==
    \A c \in Callers : InWait(c) ~> Ended(c)

\* C11, keep-alives aside: a wait that does not end receives keep-alives
\* again and again.
C11_WaitEndsOrKeepAlive ==
    \A c \in Callers :
        InWait(c) ~> (Ended(c) \/ (inbound # <<>> /\ KeepAlive(Head(inbound).m)))

\* C12: gql_subscribe sends exactly one "start" message and what it returns
\* is the id of that message.  With wait_confirmation it consumes nothing
\* behind the first message, keep-alives aside, that carries this id, and it
\* returns only once it has consumed that message; without wait_confirmation
\* it returns at once and consumes nothing.
C12_SubscribeConfirmation ==
    \A c \in Callers : frame[c].op = "subscribe" =>
        LET id == frame[c].wait_id
            L == log[c]
        IN  /\ Len(sent[c]) = 1 /\ IsStart(sent[c][1], id)
            /\ outcome[c].kind = "return" => outcome[c].value = id
            /\ \A i \in DOMAIN L : i < Len(L) => ~Matches(L[i].m, id)
            /\ IF frame[c].args.wait_confirmation
               THEN (Ended(c) /\ outcome[c].kind = "return") =>
                        L # <<>> /\ Matches(Last(L).m, id)
               ELSE L = <<>> /\ Ended(c) /\ outcome[c] = Return(id)

\* C12 witness: gql_subscribe returned its id on the confirmation, after a
\* keep-alive or a message of another id, with a message left in the stream.
C12_Witness ==
    \E c \in Callers :
        /\ frame[c].op = "subscribe" /\ frame[c].args.wait_confirmation
        /\ Ended(c) /\ outcome[c] = Return(frame[c].wait_id)
        /\ Len(log[c]) >= 2
        /\ inbound # <<>>

\* C12 witness of the other case: gql_subscribe without wait_confirmation
\* returned while a message tagged with its id waited in the stream.
C12_WitnessNoWait ==
    \E c \in Callers :
        /\ frame[c].op = "subscribe" /\ ~frame[c].args.wait_confirmation
        /\ Ended(c)
        /\ Tagged(MsgsOf(inbound), frame[c].wait_id) # {}

\* The gql_receive of caller c has ended with a GraphqlWsResponseError.
ReceiveFailed(c) ==
    /\ frame[c].op = "receive" /\ Ended(c)
    /\ outcome[c].kind = "GraphqlWsResponseError"
\* Caller c calls gql_receive in this step.
CallsReceive(c) ==
    /\ Ended(c)
    /\ pc'[c] = "receive" /\ frame'[c].op = "receive"
\* The gql_receive of caller c is handed its first message in this step.
FirstReceived(c) ==
    /\ frame[c].op = "receive" /\ pc[c] = "receive"
    /\ log[c] = <<>> /\ log'[c] # <<>>

\* C13: a GraphqlWsResponseError ends only the gql_receive that raised it.
\* Once it is raised the message with the errors is consumed and only that
\* (the stream goes on right behind it), the transport is still open and the
\* call has sent nothing; a gql_receive called next leaves the stream as it
\* is and is handed first the message that followed the one with the errors.
C13_ErrorEndsOnlyTheCall ==
    [][\A c \in Callers :
        /\ ReceiveFailed(c) =>
            /\ HasErrors(PayloadOf(Last(log[c]).m))
            /\ Last(log[c]).n = delivered
            /\ \A j \in DOMAIN inbound : inbound[j].n = delivered + j
            /\ conn = "open"
            /\ sent[c] = <<>>
        /\ (ReceiveFailed(c) /\ CallsReceive(c)) =>
            /\ inbound' = inbound /\ delivered' = delivered
            /\ conn' = "open" /\ sent'[c] = <<>>
        /\ FirstReceived(c) =>
            /\ inbound # <<>>
            /\ log'[c][1].m = Head(inbound).m
            /\ log'[c][1].n = delivered + 1]_vars

\* C13 witness: gql_receive raised a GraphqlWsResponseError and the message
\* that followed the one with the errors waits in the stream.
C13_Witness ==
    \E c \in Callers :
        /\ ReceiveFailed(c)
        /\ Last(log[c]).m = ErrX
        /\ inbound # <<>> /\ Head(inbound).n = delivered + 1

\* C13, the call that follows: no gql_receive is ever called after one that
\* raised a GraphqlWsResponseError (this is false).
C13_NoReceiveAfterError ==
    [][\A c \in Callers : ~(ReceiveFailed(c) /\ CallsReceive(c) /\ inbound # <<>>)]_vars

\* The ways a gql_execute that has read its first response and no second
\* one can have ended.
ExecuteUnfinished(c, ends) ==
    frame[c].op = "execute" =>
        LET id == frame[c].wait_id
            T == Tagged(MsgsOf(log[c]), id)
        IN  /\ outcome[c].kind = "return" =>
                /\ Cardinality(T) = 2
                /\ \E i \in T : /\ \A j \in T : i <= j
                                /\ outcome[c].value = PayloadOf(log[c][i].m)
            /\ (frame[c].stage = 2 /\ Cardinality(T) < 2 /\ Ended(c)) =>
                /\ outcome[c].kind \in ends
                /\ outcome[c].kind = "TimeoutError" => outcome[c].value = PyNone
                /\ \A j \in DOMAIN inbound : inbound[j].n > delivered

\* C15: gql_execute returns the first response only once it has consumed a
\* second message, keep-alives aside, that carries its id.  Until then it
\* goes on receiving whatever the transport delivers, and it ends only when
\* a receive of the transport times out: the TimeoutError propagates and the
\* response already read is lost.
C15_ExecuteBlocksWithoutComplete ==
    \A c \in Callers : ExecuteUnfinished(c, {"TimeoutError"})

\* C15, the KeyError of _next_response aside: the same, for a gql_execute
\* that may also end on a message without id.
C15_ExecuteNeverReturnsEarly ==
    \A c \in Callers : ExecuteUnfinished(c, {"TimeoutError", "KeyError"})

\* C15: a gql_execute that has read its first response was ended by a
\* timeout of the transport with other messages consumed in between.
C15_TimeoutLosesData ==
    \E c \in Callers :
        /\ frame[c].op = "execute" /\ frame[c].stage = 2 /\ Ended(c)
        /\ outcome[c].kind = "TimeoutError"
        /\ frame[c].resp = Data(1)
        /\ Len(log[c]) >= 2

\* The serial numbers of the messages of a history or of the queue.
Serials(entries) == {entries[i].n : i \in DOMAIN entries}

\* C16: two callers wait on different ids.  A message tagged with the id
\* of the one that the other consumes is dropped: it is in no history of
\* the one it was meant for and not in the stream any more, so that caller
\* never receives it.  A waiter never drops a message tagged with its own
\* id: it returns it.  So when the waiter of the other id consumed only
\* messages behind those of a waiter that has returned (the waits ran one
\* after the other, in the order of the messages), that waiter has returned
\* the first message tagged with its id and none was lost.
C16_ConcurrentWaitDrops ==
    \A c, d \in Callers :
        (c # d /\ frame[c].op = "receive" /\ frame[d].op = "receive"
            /\ frame[c].wait_id # frame[d].wait_id) =>
            LET y == frame[d].wait_id
                All == MsgsOf(log[d]) \o MsgsOf(log[c]) \o MsgsOf(inbound)
            IN  /\ \A i \in DOMAIN log[c] :
                    (~KeepAlive(log[c][i].m) /\ IdOf(log[c][i].m) = y) =>
                        /\ log[c][i].fate = "skipped"
                        /\ log[c][i].n \notin Serials(log[d]) \cup Serials(inbound)
                /\ \A i \in DOMAIN log[d] :
                    (~KeepAlive(log[d][i].m) /\ IdOf(log[d][i].m) = y) =>
                        /\ log[d][i].fate = "returned"
                        /\ i = Len(log[d])
                /\ (/\ Ended(d) /\ outcome[d].kind = "return"
                    /\ \A n \in Serials(log[d]), k \in Serials(log[c]) : n < k) =>
                        /\ Tagged(All, y) # {}
                        /\ \A i \in Tagged(All, y) :
                            (\A j \in Tagged(All, y) : i <= j) =>
                                /\ i = Len(log[d])
                                /\ outcome[d].value = PayloadOf(All[i])

\* C16 witness: the caller that waits on Y was handed the first message, a
\* keep-alive, and is still waiting; the caller that waits on X was handed
\* the second, the only message tagged Y the server sent, and dropped it;
\* the stream is empty.
C16_Witness ==
    \E c, d \in Callers :
        /\ c # d
        /\ frame[c].op = "receive" /\ frame[c].wait_id = X /\ pc[c] = "receive"
        /\ frame[d].op = "receive" /\ frame[d].wait_id = Y /\ pc[d] = "receive"
        /\ nserver = 2 /\ inbound = <<>>
        /\ Len(log[d]) = 1 /\ log[d][1].n = 1 /\ log[d][1].m = KAX
        /\ Len(log[c]) = 1 /\ log[c][1].n = 2 /\ log[c][1].m = DataY
        /\ log[c][1].fate = "skipped"

\* C16 witness of the other case: the wait on Y returned the message tagged
\* Y, then the wait on X returned the message tagged X that came behind it.
C16_WitnessInOrder ==
    \E c, d \in Callers :
        /\ c # d
        /\ frame[c].op = "receive" /\ frame[c].wait_id = X /\ Ended(c)
        /\ frame[d].op = "receive" /\ frame[d].wait_id = Y /\ Ended(d)
        /\ outcome[d] = Return(Data(2)) /\ outcome[c] = Return(Data(1))
        /\ Len(log[d]) = 1 /\ log[d][1].n = 1
        /\ Len(log[c]) = 1 /\ log[c][1].n = 2

\* The first response of the gql_execute of caller c carried errors.
ExecuteFailedEarly(c) ==
    /\ frame[c].op = "execute"
    /\ \E i \in Tagged(MsgsOf(log[c]), frame[c].wait_id) :
        /\ \A j \in Tagged(MsgsOf(log[c]), frame[c].wait_id) : i <= j
        /\ HasErrors(PayloadOf(log[c][i].m))
\* The gql_receive() of caller c ends in this step with a message.
ReceiveAnyEnds(c) ==
    /\ frame[c].op = "receive" /\ frame[c].wait_id = PyNone
    /\ pc[c] = "receive" /\ pc'[c] = "idle"
    /\ outcome'[c].kind # "TimeoutError"

\* C17: when the first response to gql_execute carries errors, gql_execute
\* ends there with a GraphqlWsResponseError that carries that payload: the
\* message is the last it consumed, so the second gql_receive is not
\* performed and whatever the server sent behind it, the "complete" message
\* too, is still in the stream.  A gql_receive() called next leaves the
\* stream as it is, and a gql_receive() returns the payload of the first
\* message of the stream that is no keep-alive: the stale "complete" message.
C17_ExecuteErrorLeavesComplete ==
    [][\A c \in Callers :
        /\ ExecuteFailedEarly(c) =>
            /\ Ended(c)
            /\ frame[c].stage = 1
            /\ Tagged(MsgsOf(log[c]), frame[c].wait_id) = {Len(log[c])}
            /\ outcome[c] = Raise("GraphqlWsResponseError", PayloadOf(Last(log[c]).m))
            /\ Last(log[c]).n = delivered
            /\ \A j \in DOMAIN inbound : inbound[j].n = delivered + j
        /\ (ExecuteFailedEarly(c) /\ CallsReceive(c)) =>
            inbound' = inbound /\ delivered' = delivered
        /\ ReceiveAnyEnds(c) =>
            /\ inbound # <<>>
            /\ ~KeepAlive(Head(inbound).m)
            /\ \A i \in DOMAIN log[c] : KeepAlive(log[c][i].m)
            /\ outcome'[c].value = PayloadOf(Head(inbound).m)
            /\ inbound' = Tail(inbound)]_vars

\* C17 witness: gql_execute failed on the first response, which carried
\* errors, and the "complete" message of the exchange is the next message of
\* the stream.
C17_Witness ==
    \E c \in Callers :
        /\ ExecuteFailedEarly(c)
        /\ frame[c].wait_id = X
        /\ Last(log[c]).m = ErrX
        /\ inbound # <<>> /\ Head(inbound).m = CompleteX

\* C17, the call that follows: no gql_receive() is ever called after such a
\* gql_execute with the "complete" message waiting (this is false).
C17_NoReceiveAfterExecuteError ==
    [][\A c \in Callers :
        ~(/\ ExecuteFailedEarly(c) /\ CallsReceive(c)
          /\ frame'[c].wait_id = PyNone
          /\ inbound # <<>> /\ Head(inbound).m = CompleteX)]_vars

\* C18: gql_wait_response swallows the TimeoutError of a receive and nothing
\* else.  A message with errors it consumes is the last it consumes: the
\* wait ends on it with the GraphqlWsResponseError that carries its payload,
\* the response checker is not invoked on it, and neither the budget that
\* remains nor what waits in the stream matters.  The wait raises a
\* GraphqlWsResponseError in no other case.
C18_OnlyTimeoutSwallowed ==
    \A c \in Callers : frame[c].op = "wait_response" =>
        LET L == log[c]
            failed == Ended(c) /\ outcome[c].kind = "GraphqlWsResponseError"
        IN  /\ \A i \in DOMAIN L :
                (~KeepAlive(L[i].m) /\ HasErrors(PayloadOf(L[i].m))) =>
                    /\ i = Len(L)
                    /\ ~L[i].checked
                    /\ failed
                    /\ frame[c].last = "error"
            /\ failed =>
                /\ L # <<>>
                /\ ~KeepAlive(Last(L).m) /\ HasErrors(PayloadOf(Last(L).m))
                /\ outcome[c].value = PayloadOf(Last(L).m)
            /\ outcome[c].kind \in
                {"running", "return", "TimeoutError", "GraphqlWsResponseError"}
            /\ (frame[c].last = "timeout" /\ Remaining(c) > 0) => ~Ended(c)

\* C18 witness: the wait swallowed a TimeoutError, then ended on a message
\* with errors while budget remained and a message the checker accepts was
\* the next of the stream.
C18_Witness ==
    \E c \in Callers :
        /\ frame[c].op = "wait_response" /\ Ended(c)
        /\ outcome[c].kind = "GraphqlWsResponseError"
        /\ frame[c].spent >= 1 /\ Remaining(c) >= 1
        /\ inbound # <<>> /\ Accepts(PayloadOf(Head(inbound).m))
        /\ ~KeepAlive(Head(inbound).m)

\* C19: gql_wait_response called with a timeout that is zero or negative
\* raises TimeoutError at once: it awaits no receive of the transport, so it
\* consumes no message and invokes the response checker on none, whatever
\* waits in the stream.
C19_NoBudgetNoReceive ==
    \A c \in Callers :
        (/\ frame[c].op = "wait_response"
         /\ frame[c].args.timeout # PyNone
         /\ frame[c].args.timeout.n <= 0) =>
            /\ Ended(c)
            /\ outcome[c] = Raise("TimeoutError", PyNone)
            /\ log[c] = <<>>
            /\ frame[c].stage = 0
            /\ frame[c].spent = 0 /\ frame[c].last = "none"
            /\ \A j \in DOMAIN inbound : inbound[j].n = delivered + j

\* C19 witness: gql_wait_response(timeout=0) raised TimeoutError with a
\* message the checker accepts at the head of the stream.
C19_Witness ==
    \E c \in Callers :
        /\ frame[c].op = "wait_response"
        /\ frame[c].args.timeout = PyInt(0)
        /\ outcome[c].kind = "TimeoutError"
        /\ inbound # <<>> /\ Head(inbound).m = DataX

====
